---- MODULE Spec2Model ----
(***************************************************************************)
(* termscp: the FileExplorer directory-state engine                        *)
(* (src/src/explorer/mod.rs) and the copy actions of the file transfer     *)
(* activity (src/src/ui/activities/filetransfer/actions/copy.rs) as a      *)
(* state machine, with the password prompt of src/src/utils/tty.rs.        *)
(*                                                                         *)
(* Strings (entry names) are sequences of byte codes, so that              *)
(* to_lowercase, starts_with('.') and the lexicographic order of String    *)
(* are computed rather than assumed.                                       *)
(***************************************************************************)
EXTENDS Integers, Sequences, FiniteSets, TLC

VARIABLES
    wrkdir,        \* FileExplorer.wrkdir
    dirstack,      \* FileExplorer.dirstack (VecDeque, front = index 1)
    stack_size,    \* FileExplorer.stack_size
    file_sorting,  \* FileExplorer.file_sorting
    group_dirs,    \* FileExplorer.group_dirs (Option<GroupDirs>)
    opts,          \* FileExplorer.opts (ExplorerOpts bits, u32)
    files,         \* FileExplorer.files (Vec<Entry>)
    pc,            \* position of the caller: "idle", or inside pushd's loop
    last,          \* the most recent call: its name, its argument, what it found
    ret,           \* the value returned by the most recent call, () until it returns
    pushrun,       \* history: paths pushed by the latest run of pushd calls
    poprun,        \* history: values returned by the popd calls that followed it
    given,         \* history: the vector handed to the latest set_files call
    side,          \* copy action under way: "local", "remote", or "none"
    input,         \* its `input` argument, as the PathBuf made from it
    selected,      \* the SelectedEntry it matched on
    todo,          \* entries the `for` loop has not reached yet
    cpc,           \* position in the copy action: "idle", "copy", "reload", "done"
    trace,         \* calls made on the backends and on the log, in order
    marks,         \* history: length of trace after each entry was handled
    outcomes,      \* history: what the backends answered for each entry
    text,          \* the string last written by to_string or received for from_str
    tty            \* calls the latest read_secret_from_tty made, in order

vars == <<wrkdir, dirstack, stack_size, file_sorting, group_dirs, opts, files,
          pc, last, ret, pushrun, poprun, given,
          side, input, selected, todo, cpc, trace, marks, outcomes, text, tty>>

console == <<text, tty>>

activity == <<side, input, selected, todo, cpc, trace, marks, outcomes>>

explorer == <<wrkdir, dirstack, stack_size, file_sorting, group_dirs, opts, files>>

-----------------------------------------------------------------------------
(* Bounds *)

MaxFiles == 3        \* longest listing handed to set_files
MaxStackSize == 2    \* largest configured stack_size
MaxRun == 3          \* longest run of consecutive pushd calls
MaxPops == 3         \* longest run of consecutive popd calls

-----------------------------------------------------------------------------
(* Values *)

None == [some |-> FALSE]
Some(x) == [some |-> TRUE, val |-> x]
Unit == [unit |-> TRUE]

\* "b", "B", ".a", "ab" as byte strings
Name_b == <<98>>
Name_B == <<66>>
Name_dot_a == <<46, 97>>
Name_ab == <<97, 98>>

\* The entries a listing may hold.  Every criterion has entries with equal
\* keys (name: b/B, size and mtime: a file and a directory, ctime: the two
\* files and the two directories), so that stability of the sorts is exercised.
Entries ==
    { [name |-> Name_b,     path |-> "/b",  kind |-> "File",      size |-> 2, mtime |-> 1, ctime |-> 1],
      [name |-> Name_B,     path |-> "/B",  kind |-> "Directory", size |-> 1, mtime |-> 1, ctime |-> 2],
      [name |-> Name_dot_a, path |-> "/.a", kind |-> "File",      size |-> 1, mtime |-> 2, ctime |-> 1],
      [name |-> Name_ab,    path |-> "/ab", kind |-> "Directory", size |-> 2, mtime |-> 2, ctime |-> 2] }

Dirs == {"/tmp", "/home/omar", "/dev"}

FileSorting == {"Name", "ModifyTime", "CreationTime", "Size"}
GroupDirs == {"First", "Last"}
GroupOptions == {None} \cup {Some(g) : g \in GroupDirs}

Range(s) == {s[i] : i \in 1..Len(s)}

\* Directory listings of up to n entries, no entry listed twice
RECURSIVE ListingsUpTo(_, _)
ListingsUpTo(S, n) ==
    IF n = 0 THEN {<<>>}
    ELSE LET shorter == ListingsUpTo(S, n - 1)
         IN  shorter \cup {Append(s, x) : s \in {t \in shorter : Len(t) = n - 1},
                                          x \in S}

Listings == {s \in ListingsUpTo(Entries, MaxFiles) : Cardinality(Range(s)) = Len(s)}

-----------------------------------------------------------------------------
(* ExplorerOpts: bitflags over u32 *)

SHOW_HIDDEN_FILES == 1

RECURSIVE BitAnd(_, _)
BitAnd(a, b) ==
    IF a = 0 \/ b = 0 THEN 0
    ELSE (IF a % 2 = 1 /\ b % 2 = 1 THEN 1 ELSE 0) + 2 * BitAnd(a \div 2, b \div 2)

RECURSIVE BitXor(_, _)
BitXor(a, b) ==
    IF a = 0 THEN b
    ELSE IF b = 0 THEN a
    ELSE (IF a % 2 # b % 2 THEN 1 ELSE 0) + 2 * BitXor(a \div 2, b \div 2)

intersects(o, flag) == BitAnd(o, flag) # 0

\* toggle, had the flag been inserted rather than toggled
toggle_insert(o, flag) == IF BitAnd(o, flag) # 0 THEN o ELSE o + flag

toggle(o, flag) == BitXor(o, flag)

-----------------------------------------------------------------------------
(* Entry helpers *)

is_hidden(x) == Len(x.name) > 0 /\ x.name[1] = 46

is_file(x) == x.kind = "File"

is_dir(x) == x.kind = "Directory"

\* to_lowercase, had the names been compared as they are written
to_lowercase_forgotten(s) == s

to_lowercase(s) == [i \in 1..Len(s) |-> IF s[i] >= 65 /\ s[i] <= 90 THEN s[i] + 32 ELSE s[i]]

\* Ord for String: lexicographic on bytes, a proper prefix is smaller
StrLess(a, b) ==
    \E i \in 1..Len(b) :
        /\ \A j \in 1..(i - 1) : j <= Len(a) /\ a[j] = b[j]
        /\ (i > Len(a) \/ a[i] < b[i])

-----------------------------------------------------------------------------
(* Sorting.  slice::sort_by and slice::sort_by_key are stable: an element   *)
(* is never moved in front of one that does not compare greater than it.    *)

Less(mode, a, b) ==
    CASE mode = "name"  -> StrLess(to_lowercase(a.name), to_lowercase(b.name))
      [] mode = "mtime" -> b.mtime < a.mtime
      [] mode = "ctime" -> b.ctime < a.ctime
      [] mode = "size"  -> b.size < a.size
      [] mode = "directories_first" -> (~is_file(a)) /\ is_file(b)
      [] mode = "directories_last"  -> (~is_dir(a)) /\ is_dir(b)

\* the insertion of an unstable sort: x goes in front of the entries equal to it
InsertSorted_unstable(s, x, mode) ==
    LET after == {p \in 1..Len(s) : ~Less(mode, s[p], x)}
    IN  IF after = {} THEN Append(s, x)
        ELSE LET p == CHOOSE q \in after : \A r \in after : q <= r
             IN  SubSeq(s, 1, p - 1) \o <<x>> \o SubSeq(s, p, Len(s))

\* the insertion of a sort that keeps one entry per key (a sort followed by
\* dedup_by_key): x is dropped when an entry with an equal key is there
InsertSorted_dedup(s, x, mode) ==
    LET after == {p \in 1..Len(s) : Less(mode, x, s[p])}
        equal == {p \in 1..Len(s) : ~Less(mode, x, s[p]) /\ ~Less(mode, s[p], x)}
    IN  IF equal # {} THEN s
        ELSE IF after = {} THEN Append(s, x)
        ELSE LET p == CHOOSE q \in after : \A r \in after : q <= r
             IN  SubSeq(s, 1, p - 1) \o <<x>> \o SubSeq(s, p, Len(s))

InsertSorted(s, x, mode) ==
    LET after == {p \in 1..Len(s) : Less(mode, x, s[p])}
    IN  IF after = {} THEN Append(s, x)
        ELSE LET p == CHOOSE q \in after : \A r \in after : q <= r
             IN  SubSeq(s, 1, p - 1) \o <<x>> \o SubSeq(s, p, Len(s))

RECURSIVE StableSort(_, _)
StableSort(s, mode) ==
    IF s = <<>> THEN <<>>
    ELSE InsertSorted(StableSort(SubSeq(s, 1, Len(s) - 1), mode), s[Len(s)], mode)

Reverse(s) == [i \in 1..Len(s) |-> s[Len(s) + 1 - i]]

sort_files_by_name(f) == StableSort(f, "name")

sort_files_by_mtime(f) == StableSort(f, "mtime")

sort_files_by_creation_time(f) == StableSort(f, "ctime")

\* sort_files_by_size, had the comparison been written a.cmp(b): smallest first
sort_files_by_size_ascending(f) == Reverse(StableSort(f, "size"))

sort_files_by_size(f) == StableSort(f, "size")

\* directories first, had it been written as the reverse of directories last
sort_files_directories_first_reversed(f) == Reverse(StableSort(f, "directories_last"))

sort_files_directories_first(f) == StableSort(f, "directories_first")

sort_files_directories_last(f) == StableSort(f, "directories_last")

\* sort, had the grouping pass been left out
sort_without_grouping(f, sorting, group) ==
    CASE sorting = "Name" -> sort_files_by_name(f)
      [] sorting = "CreationTime" -> sort_files_by_creation_time(f)
      [] sorting = "ModifyTime" -> sort_files_by_mtime(f)
      [] sorting = "Size" -> sort_files_by_size(f)

sort(f, sorting, group) ==
    LET primary ==
            CASE sorting = "Name" -> sort_files_by_name(f)
              [] sorting = "CreationTime" -> sort_files_by_creation_time(f)
              [] sorting = "ModifyTime" -> sort_files_by_mtime(f)
              [] sorting = "Size" -> sort_files_by_size(f)
    IN  IF group = None THEN primary
        ELSE IF group.val = "First" THEN sort_files_directories_first(primary)
        ELSE sort_files_directories_last(primary)

-----------------------------------------------------------------------------
(* Readers *)

\* iter_files' closure, had it not consulted the options
iter_files_pass_ignoring_opts(o, x) == ~is_hidden(x)

\* the closure handed to filter() by iter_files
iter_files_pass(o, x) ==
    LET pass0 == TRUE
    IN  IF ~intersects(o, SHOW_HIDDEN_FILES) THEN pass0 /\ ~is_hidden(x) ELSE pass0

\* get's closure, had it let every entry pass
get_pass_all(o, x) == TRUE

\* the closure handed to filter() by get
get_pass(o, x) ==
    LET pass0 == TRUE
    IN  IF ~intersects(o, SHOW_HIDDEN_FILES) THEN pass0 /\ ~is_hidden(x) ELSE pass0

iter_files == SelectSeq(files, LAMBDA x : iter_files_pass(opts, x))

iter_files_all == files

get(idx) ==
    LET filtered == SelectSeq(files, LAMBDA x : get_pass(opts, x))
    IN  IF idx < Len(filtered) THEN Some(filtered[idx + 1]) ELSE None

hidden_files_visible == intersects(opts, SHOW_HIDDEN_FILES)

-----------------------------------------------------------------------------
(* State after FileExplorer::default() and `stack_size = sz`, as            *)
(* test_fs_explorer_stack configures it                                     *)

Configured(sz) ==
    /\ wrkdir = "/"
    /\ dirstack = <<>>
    /\ stack_size = sz
    /\ file_sorting = "Name"
    /\ group_dirs = None
    /\ opts = 0
    /\ files = <<>>
    /\ pc = "idle"
    /\ last = [op |-> "default"]
    /\ ret = Unit
    /\ pushrun = <<>>
    /\ poprun = <<>>
    /\ given = <<>>
    /\ side = "none"
    /\ input = <<>>
    /\ selected = [variant |-> "None"]
    /\ todo = <<>>
    /\ cpc = "idle"
    /\ trace = <<>>
    /\ marks = <<>>
    /\ outcomes = <<>>
    /\ text = <<>>
    /\ tty = <<>>

\* an explorer with the largest stack considered
Init == Configured(MaxStackSize)

\* an explorer of any stack size, 0 included
InitStack == \E sz \in 0..MaxStackSize : Configured(sz)

-----------------------------------------------------------------------------
(* Navigation stack *)

\* the loop condition, had it been written with > in place of >=
stack_full_off_by_one == Len(dirstack) > stack_size

\* the condition of pushd's while loop
stack_full == Len(dirstack) >= stack_size

\* pop_front, had the newest record been evicted (pop_back) instead
pop_front_newest(q) == IF q = <<>> THEN q ELSE SubSeq(q, 1, Len(q) - 1)

pop_front(q) == IF q = <<>> THEN q ELSE Tail(q)

pop_back(q) == IF q = <<>> THEN q ELSE SubSeq(q, 1, Len(q) - 1)

back(q) == IF q = <<>> THEN None ELSE Some(q[Len(q)])

\* pushd is entered
pushd_call(dir) ==
    /\ pc = "idle"
    /\ pc' = "pushd"
    /\ last' = [op |-> "pushd", arg |-> dir]
    /\ ret' = Unit
    /\ UNCHANGED explorer

\* one iteration of `while self.dirstack.len() >= self.stack_size`
pushd_evict ==
    /\ pc = "pushd"
    /\ stack_full
    /\ dirstack' = pop_front(dirstack)
    /\ UNCHANGED <<wrkdir, stack_size, file_sorting, group_dirs, opts, files,
                   pc, last, ret>>

\* the loop is left, the record is pushed and pushd returns
pushd_push ==
    /\ pc = "pushd"
    /\ ~stack_full
    /\ dirstack' = Append(dirstack, last.arg)
    /\ pc' = "idle"
    /\ UNCHANGED <<wrkdir, stack_size, file_sorting, group_dirs, opts, files, last, ret>>

\* popd, had it also made the directory popped the working directory
popd_chdir ==
    /\ pc = "idle"
    /\ ret' = back(dirstack)
    /\ wrkdir' = IF dirstack = <<>> THEN wrkdir ELSE dirstack[Len(dirstack)]
    /\ dirstack' = pop_back(dirstack)
    /\ last' = [op |-> "popd"]
    /\ UNCHANGED <<stack_size, file_sorting, group_dirs, opts, files, pc>>

popd ==
    /\ pc = "idle"
    /\ ret' = back(dirstack)
    /\ dirstack' = pop_back(dirstack)
    /\ last' = [op |-> "popd"]
    /\ UNCHANGED <<wrkdir, stack_size, file_sorting, group_dirs, opts, files, pc>>

-----------------------------------------------------------------------------
(* Listing *)

\* set_files, had the vector been appended to the listing (Vec::extend)
set_files_extend(new) ==
    /\ pc = "idle"
    /\ files' = sort(files \o new, file_sorting, group_dirs)
    /\ last' = [op |-> "set_files"]
    /\ ret' = Unit
    /\ UNCHANGED <<wrkdir, dirstack, stack_size, file_sorting, group_dirs, opts,
                   pc>>

set_files(new) ==
    /\ pc = "idle"
    /\ files' = sort(new, file_sorting, group_dirs)
    /\ last' = [op |-> "set_files"]
    /\ ret' = Unit
    /\ UNCHANGED <<wrkdir, dirstack, stack_size, file_sorting, group_dirs, opts,
                   pc>>

\* remove, had Vec::swap_remove been used
swap_remove(f, idx) ==
    IF idx + 1 = Len(f) THEN SubSeq(f, 1, idx)
    ELSE [i \in 1..(Len(f) - 1) |-> IF i = idx + 1 THEN f[Len(f)] ELSE f[i]]

\* Vec::remove, for an index in range
remove(f, idx) == SubSeq(f, 1, idx) \o SubSeq(f, idx + 2, Len(f))

del_entry(idx) ==
    /\ pc = "idle"
    /\ files' = IF Len(files) > idx THEN remove(files, idx) ELSE files
    /\ last' = [op |-> "del_entry", arg |-> idx]
    /\ ret' = Unit
    /\ UNCHANGED <<wrkdir, dirstack, stack_size, file_sorting, group_dirs, opts,
                   pc>>

iter_files_call ==
    /\ pc = "idle"
    /\ ret' = [items |-> iter_files]
    /\ last' = [op |-> "iter_files"]
    /\ UNCHANGED <<explorer, pc>>

iter_files_all_call ==
    /\ pc = "idle"
    /\ ret' = [items |-> iter_files_all]
    /\ last' = [op |-> "iter_files_all"]
    /\ UNCHANGED <<explorer, pc>>

get_call(idx) ==
    /\ pc = "idle"
    /\ ret' = get(idx)
    /\ last' = [op |-> "get", arg |-> idx]
    /\ UNCHANGED <<explorer, pc>>

\* sort_by, had the call to sort() been forgotten
sort_by_stale(sorting) ==
    /\ pc = "idle"
    /\ file_sorting' = sorting
    /\ last' = [op |-> "sort_by", same |-> (file_sorting = sorting)]
    /\ ret' = Unit
    /\ UNCHANGED <<wrkdir, dirstack, stack_size, group_dirs, opts, files, pc>>

sort_by(sorting) ==
    /\ pc = "idle"
    /\ IF file_sorting # sorting
       THEN /\ file_sorting' = sorting
            /\ files' = sort(files, sorting, group_dirs)
       ELSE UNCHANGED <<file_sorting, files>>
    /\ last' = [op |-> "sort_by", same |-> (file_sorting = sorting)]
    /\ ret' = Unit
    /\ UNCHANGED <<wrkdir, dirstack, stack_size, group_dirs, opts, pc>>

group_dirs_by(group) ==
    /\ pc = "idle"
    /\ IF group_dirs # group
       THEN /\ group_dirs' = group
            /\ files' = sort(files, file_sorting, group)
       ELSE UNCHANGED <<group_dirs, files>>
    /\ last' = [op |-> "group_dirs_by", same |-> (group_dirs = group)]
    /\ ret' = Unit
    /\ UNCHANGED <<wrkdir, dirstack, stack_size, file_sorting, opts, pc>>

toggle_hidden_files ==
    /\ pc = "idle"
    /\ opts' = toggle(opts, SHOW_HIDDEN_FILES)
    /\ last' = [op |-> "toggle_hidden_files", visible |-> hidden_files_visible,
                 listing |-> iter_files]
    /\ ret' = Unit
    /\ UNCHANGED <<wrkdir, dirstack, stack_size, file_sorting, group_dirs, files,
                   pc>>

-----------------------------------------------------------------------------

history == <<pushrun, poprun, given>>

\* The explorer as its owner drives it: every operation, the directory pushed
\* being the working directory that is left.  No history is kept.
Next ==
    \/ pushd_call(wrkdir) /\ UNCHANGED <<history, activity, console>>
    \/ pushd_evict /\ UNCHANGED <<history, activity, console>>
    \/ pushd_push /\ UNCHANGED <<history, activity, console>>
    \/ popd /\ UNCHANGED <<history, activity, console>>
    \/ (\E new \in Listings : set_files(new)) /\ UNCHANGED <<history, activity, console>>
    \/ (\E idx \in 0..MaxFiles : del_entry(idx)) /\ UNCHANGED <<history, activity, console>>
    \/ iter_files_call /\ UNCHANGED <<history, activity, console>>
    \/ iter_files_all_call /\ UNCHANGED <<history, activity, console>>
    \/ (\E idx \in 0..MaxFiles : get_call(idx)) /\ UNCHANGED <<history, activity, console>>
    \/ (\E sorting \in FileSorting : sort_by(sorting)) /\ UNCHANGED <<history, activity, console>>
    \/ (\E group \in GroupOptions : group_dirs_by(group)) /\ UNCHANGED <<history, activity, console>>
    \/ toggle_hidden_files /\ UNCHANGED <<history, activity, console>>

Spec == Init /\ [][Next]_vars

\* The listing operations alone
NextListing ==
    \/ (\E new \in Listings : set_files(new)) /\ UNCHANGED <<history, activity, console>>
    \/ (\E idx \in 0..MaxFiles : del_entry(idx)) /\ UNCHANGED <<history, activity, console>>
    \/ iter_files_call /\ UNCHANGED <<history, activity, console>>
    \/ iter_files_all_call /\ UNCHANGED <<history, activity, console>>
    \/ (\E idx \in 0..MaxFiles : get_call(idx)) /\ UNCHANGED <<history, activity, console>>
    \/ (\E sorting \in FileSorting : sort_by(sorting)) /\ UNCHANGED <<history, activity, console>>
    \/ (\E group \in GroupOptions : group_dirs_by(group)) /\ UNCHANGED <<history, activity, console>>
    \/ toggle_hidden_files /\ UNCHANGED <<history, activity, console>>

SpecListing == Init /\ [][NextListing]_vars

\* The navigation stack alone, fed arbitrary paths, with the history of the
\* latest run of pushd calls and of the popd calls after it
NextStack ==
    \/ /\ Len(pushrun) < MaxRun \/ poprun # <<>>
       /\ \E dir \in Dirs : pushd_call(dir)
       /\ UNCHANGED <<history, activity, console>>
    \/ pushd_evict /\ UNCHANGED <<history, activity, console>>
    \/ /\ pushd_push
       /\ pushrun' = IF poprun # <<>> THEN <<last.arg>> ELSE Append(pushrun, last.arg)
       /\ poprun' = <<>>
       /\ UNCHANGED <<given, activity, console>>
    \/ /\ Len(poprun) < MaxPops
       /\ popd
       /\ poprun' = Append(poprun, ret')
       /\ UNCHANGED <<pushrun, given, activity, console>>

SpecStack == InitStack /\ [][NextStack]_vars

\* Listings of a directory that is empty or holds one entry
ShortListings == {<<>>} \cup {<<e>> : e \in Entries}

\* default(), had the options been created with ExplorerOpts::all()
default_all_opts ==
    [wrkdir |-> "/", dirstack |-> <<>>, stack_size |-> 16, file_sorting |-> "Name",
     group_dirs |-> None, opts |-> SHOW_HIDDEN_FILES, files |-> <<>>]

\* FileExplorer::default()
default ==
    [wrkdir |-> "/", dirstack |-> <<>>, stack_size |-> 16, file_sorting |-> "Name",
     group_dirs |-> None, opts |-> 0, files |-> <<>>]

\* a newly made explorer, nothing configured
InitDefault ==
    /\ wrkdir = default.wrkdir
    /\ dirstack = default.dirstack
    /\ stack_size = default.stack_size
    /\ file_sorting = default.file_sorting
    /\ group_dirs = default.group_dirs
    /\ opts = default.opts
    /\ files = default.files
    /\ pc = "idle"
    /\ last = [op |-> "default"]
    /\ ret = Unit
    /\ pushrun = <<>> /\ poprun = <<>> /\ given = <<>>
    /\ side = "none" /\ input = <<>> /\ selected = [variant |-> "None"]
    /\ todo = <<>> /\ cpc = "idle" /\ trace = <<>> /\ marks = <<>> /\ outcomes = <<>>
    /\ text = <<>> /\ tty = <<>>

\* The operations of the explorer on short listings, the directory pushed
\* being the working directory
NextDefault ==
    \/ pushd_call(wrkdir) /\ UNCHANGED <<history, activity, console>>
    \/ pushd_evict /\ UNCHANGED <<history, activity, console>>
    \/ pushd_push /\ UNCHANGED <<history, activity, console>>
    \/ popd /\ UNCHANGED <<history, activity, console>>
    \/ (\E new \in ShortListings : set_files(new)) /\ UNCHANGED <<history, activity, console>>
    \/ (\E idx \in 0..Len(files) : del_entry(idx)) /\ UNCHANGED <<history, activity, console>>
    \/ iter_files_call /\ UNCHANGED <<history, activity, console>>
    \/ iter_files_all_call /\ UNCHANGED <<history, activity, console>>
    \/ (\E idx \in 0..Len(files) : get_call(idx)) /\ UNCHANGED <<history, activity, console>>
    \/ (\E sorting \in FileSorting : sort_by(sorting)) /\ UNCHANGED <<history, activity, console>>
    \/ (\E group \in GroupOptions : group_dirs_by(group)) /\ UNCHANGED <<history, activity, console>>
    \/ toggle_hidden_files /\ UNCHANGED <<history, activity, console>>

SpecDefault == InitDefault /\ [][NextDefault]_vars

\* The owner of the explorer enters a directory: wrkdir is a pub field, which
\* the owner assigns
chdir(dir) ==
    /\ pc = "idle"
    /\ wrkdir' = dir
    /\ last' = [op |-> "chdir"]
    /\ ret' = Unit
    /\ UNCHANGED <<dirstack, stack_size, file_sorting, group_dirs, opts, files, pc>>

\* Every operation of the explorer, its owner moving between directories and
\* pushing the directory it leaves
NextFrame ==
    \/ (\E dir \in Dirs : chdir(dir)) /\ UNCHANGED <<history, activity, console>>
    \/ pushd_call(wrkdir) /\ UNCHANGED <<history, activity, console>>
    \/ pushd_evict /\ UNCHANGED <<history, activity, console>>
    \/ pushd_push /\ UNCHANGED <<history, activity, console>>
    \/ popd /\ UNCHANGED <<history, activity, console>>
    \/ (\E new \in ShortListings : set_files(new)) /\ UNCHANGED <<history, activity, console>>
    \/ (\E idx \in 0..Len(files) : del_entry(idx)) /\ UNCHANGED <<history, activity, console>>
    \/ iter_files_call /\ UNCHANGED <<history, activity, console>>
    \/ iter_files_all_call /\ UNCHANGED <<history, activity, console>>
    \/ (\E idx \in 0..Len(files) : get_call(idx)) /\ UNCHANGED <<history, activity, console>>
    \/ (\E sorting \in FileSorting : sort_by(sorting)) /\ UNCHANGED <<history, activity, console>>
    \/ (\E group \in GroupOptions : group_dirs_by(group)) /\ UNCHANGED <<history, activity, console>>
    \/ toggle_hidden_files /\ UNCHANGED <<history, activity, console>>

SpecFrame == Init /\ [][NextFrame]_vars

\* Vectors a caller may hand to set_files: any of the entries that are not
\* hidden, the same one more than once included (set_files takes any
\* Vec<Entry>)
Vectors == ListingsUpTo({e \in Entries : ~is_hidden(e)}, MaxFiles)

\* set_files, fed arbitrary vectors, among the operations that set the
\* policy, with the vector last given kept as history
NextReplace ==
    \/ \E new \in Vectors :
          /\ set_files(new)
          /\ given' = new
          /\ UNCHANGED <<pushrun, poprun, activity, console>>
    \/ (\E sorting \in FileSorting : sort_by(sorting)) /\ UNCHANGED <<history, activity, console>>
    \/ (\E group \in GroupOptions : group_dirs_by(group)) /\ UNCHANGED <<history, activity, console>>

SpecReplace == Init /\ [][NextReplace]_vars

-----------------------------------------------------------------------------
(* Copy actions of the file transfer activity                               *)
(* (src/src/ui/activities/filetransfer/actions/copy.rs).  What the actions  *)
(* do is the sequence of calls they make on the backends, on the transfer   *)
(* routines and on the log; each call is an event of `trace`.               *)

\* RemoteErrorType: the kind tested for, and one other kind
RemoteErrorType == {"UnsupportedFeature", "ProtocolError"}

\* the stages of tricky_copy that can fail
Stages == {"tempfile", "recv", "stat", "send"}

\* What the local host answers to copy
HostAnswers == {[copy |-> "Ok", fail |-> "none"], [copy |-> "Err", fail |-> "none"]}

\* What the remote client answers to copy and, when the copy is unsupported,
\* the first stage of the staged copy that fails, if any
ClientAnswers ==
    {[copy |-> "Ok", fail |-> "none"]}
        \cup {[copy |-> k, fail |-> "none"] : k \in RemoteErrorType \ {"UnsupportedFeature"}}
        \cup {[copy |-> "UnsupportedFeature", fail |-> f] : f \in Stages \cup {"none"}}

\* `input`: "/t" and "d/" as byte strings; PathBuf::from keeps the string as given
Inputs == {<<47, 116>>, <<100, 47>>}

\* SelectedEntry, as get_local_selected_entries / get_remote_selected_entries
\* hand it to the match
SelectedNone == [variant |-> "None"]
SelectedOne(e) == [variant |-> "One", entry |-> e]
SelectedMany(l) == [variant |-> "Many", entries |-> l]

Selections ==
    {SelectedNone} \cup {SelectedOne(e) : e \in Entries}
        \cup {SelectedMany(l) : l \in {m \in Listings : Len(m) >= 2}}

\* PathBuf::push: an absolute component replaces the path, otherwise a
\* separator is added unless the path already ends with one
push(path, component) ==
    IF Len(component) > 0 /\ component[1] = 47 THEN component
    ELSE IF Len(path) = 0 \/ path[Len(path)] = 47 THEN path \o component
    ELSE path \o <<47>> \o component

\* self.log(level, msg)
log(level, msg, about) ==
    <<[ev |-> "log", level |-> level, alert |-> FALSE, msg |-> msg, about |-> about]>>

\* self.log_and_alert(level, msg)
log_and_alert(level, msg, about) ==
    <<[ev |-> "log", level |-> level, alert |-> TRUE, msg |-> msg, about |-> about]>>

local_copy_file(entry, dest, ans) ==
    <<[ev |-> "host.copy", entry |-> entry, dest |-> dest]>>
        \o IF ans.copy = "Ok"
           THEN log("Info", "Copied", entry.path)
           ELSE log_and_alert("Error", "Could not copy", entry.path)

\* the temporary resource tricky_copy stages in: a NamedTempFile for
\* Entry::File, a TempDir for Entry::Directory
tmp_kind(entry) == IF is_file(entry) THEN "NamedTempFile" ELSE "TempDir"

\* tmpfile.path(), resp. tempdir.path()
tmp_path(entry) == IF is_file(entry) THEN "/tmp/.t" ELSE "/tmp/.d"

\* the path that is stat'ed: tmpfile.path(), resp. tempdir.path() with
\* entry.name() pushed (the path of an entry is "/" and its name)
staged_path(entry) ==
    IF is_file(entry) THEN tmp_path(entry) ELSE tmp_path(entry) \o entry.path

\* what host.stat answers for the staged path: the entry found there, named
\* ".t" for a temporary file and as the source for a directory
stat_entry(entry) ==
    [name |-> IF is_file(entry) THEN <<46, 116>> ELSE entry.name,
     path |-> staged_path(entry), kind |-> entry.kind,
     size |-> entry.size, mtime |-> entry.mtime, ctime |-> entry.ctime]

\* the payload of the upload, had the remote entry been sent
upload_payload_original(entry, staged) == entry

\* the payload of the upload: TransferPayload::File(tmpfile_entry), resp.
\* TransferPayload::Any(tempdir_entry)
upload_payload(entry, staged) == staged

\* the message of the log_and_alert of each failing stage
copy_failed(entry, stage) ==
    CASE stage = "tempfile" -> IF is_file(entry)
                                THEN "Copy failed: could not create temporary file"
                                ELSE "Copy failed: could not create temporary directory"
      [] stage = "recv" -> IF is_file(entry)
                            THEN "Copy failed: could not download to temporary file"
                            ELSE "Copy failed: failed to download file"
      [] stage = "stat" -> "Copy failed: could not stat"
      [] stage = "send" -> IF is_file(entry)
                            THEN "Copy failed: could not write file"
                            ELSE "Copy failed: failed to send file"

\* the calls tricky_copy makes
ev_umount_wait == <<[ev |-> "umount_wait"]>>

ev_create(entry, ok) == <<[ev |-> "tempfile", what |-> tmp_kind(entry), ok |-> ok]>>

ev_recv(entry) ==
    <<[ev |-> "filetransfer_recv", payload |-> IF is_file(entry) THEN "File" ELSE "Any",
       entry |-> entry, to |-> tmp_path(entry),
       dst_name |-> IF is_file(entry) THEN Some(entry.name) ELSE None]>>

ev_stat(entry) == <<[ev |-> "host.stat", path |-> staged_path(entry)]>>

ev_send(entry, dest) ==
    <<[ev |-> "filetransfer_send", payload |-> IF is_file(entry) THEN "File" ELSE "Any",
       entry |-> upload_payload(entry, stat_entry(entry)), from |-> tmp_path(entry),
       to |-> wrkdir, dst_name |-> Some(dest)]>>

\* the temporary file or directory goes out of scope and is removed
ev_drop(entry) == <<[ev |-> "drop", what |-> tmp_kind(entry)]>>

failed(entry, stage) == log_and_alert("Error", copy_failed(entry, stage), entry.path)

\* tricky_copy, had a failed download not returned
tricky_copy_download_unchecked(entry, dest, ans) ==
    IF ans.fail = "tempfile"
    THEN [events |-> ev_umount_wait \o ev_create(entry, FALSE) \o failed(entry, "tempfile"),
          result |-> "Err"]
    ELSE IF ans.fail = "recv"
    THEN [events |-> ev_umount_wait \o ev_create(entry, TRUE) \o ev_recv(entry)
                        \o failed(entry, "recv") \o ev_stat(entry) \o ev_send(entry, dest)
                        \o ev_drop(entry),
          result |-> "Err"]
    ELSE IF ans.fail = "stat"
    THEN [events |-> ev_umount_wait \o ev_create(entry, TRUE) \o ev_recv(entry)
                        \o ev_stat(entry) \o failed(entry, "stat") \o ev_drop(entry),
          result |-> "Err"]
    ELSE IF ans.fail = "send"
    THEN [events |-> ev_umount_wait \o ev_create(entry, TRUE) \o ev_recv(entry)
                        \o ev_stat(entry) \o ev_send(entry, dest) \o failed(entry, "send")
                        \o ev_drop(entry),
          result |-> "Err"]
    ELSE [events |-> ev_umount_wait \o ev_create(entry, TRUE) \o ev_recv(entry)
                        \o ev_stat(entry) \o ev_send(entry, dest) \o ev_drop(entry),
          result |-> "Ok"]

\* tricky_copy, had the temporary resource been kept (persisted) and removed
\* by hand on success only
tricky_copy_leaking(entry, dest, ans) ==
    IF ans.fail = "tempfile"
    THEN [events |-> ev_umount_wait \o ev_create(entry, FALSE) \o failed(entry, "tempfile"),
          result |-> "Err"]
    ELSE IF ans.fail = "recv"
    THEN [events |-> ev_umount_wait \o ev_create(entry, TRUE) \o ev_recv(entry)
                        \o failed(entry, "recv"),
          result |-> "Err"]
    ELSE IF ans.fail = "stat"
    THEN [events |-> ev_umount_wait \o ev_create(entry, TRUE) \o ev_recv(entry)
                        \o ev_stat(entry) \o failed(entry, "stat"),
          result |-> "Err"]
    ELSE IF ans.fail = "send"
    THEN [events |-> ev_umount_wait \o ev_create(entry, TRUE) \o ev_recv(entry)
                        \o ev_stat(entry) \o ev_send(entry, dest) \o failed(entry, "send"),
          result |-> "Err"]
    ELSE [events |-> ev_umount_wait \o ev_create(entry, TRUE) \o ev_recv(entry)
                        \o ev_stat(entry) \o ev_send(entry, dest) \o ev_drop(entry),
          result |-> "Ok"]

\* tricky_copy, had umount_wait been called right before the download
tricky_copy_umount_late(entry, dest, ans) ==
    IF ans.fail = "tempfile"
    THEN [events |-> ev_create(entry, FALSE) \o failed(entry, "tempfile"),
          result |-> "Err"]
    ELSE IF ans.fail = "recv"
    THEN [events |-> ev_create(entry, TRUE) \o ev_umount_wait \o ev_recv(entry)
                        \o failed(entry, "recv") \o ev_drop(entry),
          result |-> "Err"]
    ELSE IF ans.fail = "stat"
    THEN [events |-> ev_create(entry, TRUE) \o ev_umount_wait \o ev_recv(entry)
                        \o ev_stat(entry) \o failed(entry, "stat") \o ev_drop(entry),
          result |-> "Err"]
    ELSE IF ans.fail = "send"
    THEN [events |-> ev_create(entry, TRUE) \o ev_umount_wait \o ev_recv(entry)
                        \o ev_stat(entry) \o ev_send(entry, dest) \o failed(entry, "send")
                        \o ev_drop(entry),
          result |-> "Err"]
    ELSE [events |-> ev_create(entry, TRUE) \o ev_umount_wait \o ev_recv(entry)
                        \o ev_stat(entry) \o ev_send(entry, dest) \o ev_drop(entry),
          result |-> "Ok"]

\* tricky_copy, had the stat error been propagated with `?`, unreported
tricky_copy_stat_unreported(entry, dest, ans) ==
    IF ans.fail = "tempfile"
    THEN [events |-> ev_umount_wait \o ev_create(entry, FALSE) \o failed(entry, "tempfile"),
          result |-> "Err"]
    ELSE IF ans.fail = "recv"
    THEN [events |-> ev_umount_wait \o ev_create(entry, TRUE) \o ev_recv(entry)
                        \o failed(entry, "recv") \o ev_drop(entry),
          result |-> "Err"]
    ELSE IF ans.fail = "stat"
    THEN [events |-> ev_umount_wait \o ev_create(entry, TRUE) \o ev_recv(entry)
                        \o ev_stat(entry) \o ev_drop(entry),
          result |-> "Err"]
    ELSE IF ans.fail = "send"
    THEN [events |-> ev_umount_wait \o ev_create(entry, TRUE) \o ev_recv(entry)
                        \o ev_stat(entry) \o ev_send(entry, dest) \o failed(entry, "send")
                        \o ev_drop(entry),
          result |-> "Err"]
    ELSE [events |-> ev_umount_wait \o ev_create(entry, TRUE) \o ev_recv(entry)
                        \o ev_stat(entry) \o ev_send(entry, dest) \o ev_drop(entry),
          result |-> "Ok"]

\* tricky_copy: the calls it makes and the Result it returns.  The temporary
\* file or directory is dropped when the function is left, by return or by
\* falling off its end.
tricky_copy(entry, dest, ans) ==
    IF ans.fail = "tempfile"
    THEN [events |-> ev_umount_wait \o ev_create(entry, FALSE) \o failed(entry, "tempfile"),
          result |-> "Err"]
    ELSE IF ans.fail = "recv"
    THEN [events |-> ev_umount_wait \o ev_create(entry, TRUE) \o ev_recv(entry)
                        \o failed(entry, "recv") \o ev_drop(entry),
          result |-> "Err"]
    ELSE IF ans.fail = "stat"
    THEN [events |-> ev_umount_wait \o ev_create(entry, TRUE) \o ev_recv(entry)
                        \o ev_stat(entry) \o failed(entry, "stat") \o ev_drop(entry),
          result |-> "Err"]
    ELSE IF ans.fail = "send"
    THEN [events |-> ev_umount_wait \o ev_create(entry, TRUE) \o ev_recv(entry)
                        \o ev_stat(entry) \o ev_send(entry, dest) \o failed(entry, "send")
                        \o ev_drop(entry),
          result |-> "Err"]
    ELSE [events |-> ev_umount_wait \o ev_create(entry, TRUE) \o ev_recv(entry)
                        \o ev_stat(entry) \o ev_send(entry, dest) \o ev_drop(entry),
          result |-> "Ok"]

\* the arm RemoteErrorType::UnsupportedFeature, had it been the wildcard arm
is_unsupported_feature_any(kind) == TRUE

\* the arm RemoteErrorType::UnsupportedFeature of `match err.kind`
is_unsupported_feature(kind) == kind = "UnsupportedFeature"

\* the body of that arm, had the error been reported before falling back
unsupported_arm_reported(entry, dest, ans) ==
    log_and_alert("Error", "Could not copy", entry.path)
        \o tricky_copy(entry, dest, ans).events

\* the body of that arm: `let _ = self.tricky_copy(entry, dest);`
unsupported_arm(entry, dest, ans) == tricky_copy(entry, dest, ans).events

remote_copy_file(entry, dest, ans) ==
    <<[ev |-> "client.copy", src |-> entry.path, dest |-> dest]>>
        \o IF ans.copy = "Ok"
           THEN log("Info", "Copied", entry.path)
           ELSE IF is_unsupported_feature(ans.copy)
           THEN unsupported_arm(entry, dest, ans)
           ELSE log_and_alert("Error", "Could not copy", entry.path)

\* what the `for` loop has left, had a failed copy ended the loop
remaining_until_failure(entries, events) ==
    IF \E k \in 1..Len(events) : events[k].ev = "log" /\ events[k].level = "Error"
    THEN <<>>
    ELSE Tail(entries)

\* what the `for` loop over the entries has left after one iteration
remaining(entries, events) == Tail(entries)

\* the destination of the entry: `input` itself for SelectedEntry::One,
\* `input` with the entry's name pushed for SelectedEntry::Many
dest_path(sel, inp, entry) ==
    IF sel.variant = "One" THEN inp ELSE push(inp, entry.name)

\* the match on the selection, had the arm SelectedEntry::None reloaded too
copy_call_reload_none(which, inp, sel) ==
    /\ cpc = "idle"
    /\ side' = which
    /\ input' = inp
    /\ selected' = sel
    /\ todo' = CASE sel.variant = "One" -> <<sel.entry>>
                 [] sel.variant = "Many" -> sel.entries
                 [] sel.variant = "None" -> <<>>
    /\ cpc' = "copy"
    /\ trace' = <<>>
    /\ marks' = <<>>
    /\ outcomes' = <<>>

\* action_local_copy / action_remote_copy is called and matches the selection
copy_call(which, inp, sel) ==
    /\ cpc = "idle"
    /\ side' = which
    /\ input' = inp
    /\ selected' = sel
    /\ todo' = CASE sel.variant = "One" -> <<sel.entry>>
                 [] sel.variant = "Many" -> sel.entries
                 [] sel.variant = "None" -> <<>>
    /\ cpc' = IF sel.variant = "None" THEN "done" ELSE "copy"
    /\ trace' = <<>>
    /\ marks' = <<>>
    /\ outcomes' = <<>>

action_local_copy(inp) == \E sel \in Selections : copy_call("local", inp, sel)

action_remote_copy(inp) == \E sel \in Selections : copy_call("remote", inp, sel)

\* one entry is copied: the only one, or one iteration of the `for` loop
copy_entry ==
    /\ cpc = "copy"
    /\ todo # <<>>
    /\ \E ans \in IF side = "local" THEN HostAnswers ELSE ClientAnswers :
          LET entry == Head(todo)
              dest == dest_path(selected, input, entry)
              events == IF side = "local" THEN local_copy_file(entry, dest, ans)
                        ELSE remote_copy_file(entry, dest, ans)
          IN  /\ trace' = trace \o events
              /\ marks' = Append(marks, Len(trace) + Len(events))
              /\ outcomes' = Append(outcomes, ans)
              /\ todo' = remaining(todo, events)
    /\ UNCHANGED <<side, input, selected, cpc>>

\* the reload, had it been made only when no entry reported an Error
reload_dir_on_success ==
    /\ cpc = "copy"
    /\ todo = <<>>
    /\ trace' = IF \E k \in 1..Len(trace) : trace[k].ev = "log" /\ trace[k].level = "Error"
                THEN trace
                ELSE Append(trace, [ev |-> IF side = "local" THEN "reload_local_dir"
                                           ELSE "reload_remote_dir"])
    /\ cpc' = "done"
    /\ UNCHANGED <<side, input, selected, todo, marks, outcomes>>

\* reload_local_dir / reload_remote_dir, then the action returns
reload_dir ==
    /\ cpc = "copy"
    /\ todo = <<>>
    /\ trace' = Append(trace, [ev |-> IF side = "local" THEN "reload_local_dir"
                                      ELSE "reload_remote_dir"])
    /\ cpc' = "done"
    /\ UNCHANGED <<side, input, selected, todo, marks, outcomes>>

\* the activity is ready for the next action; what the last one did is forgotten
copy_return ==
    /\ cpc = "done"
    /\ cpc' = "idle"
    /\ side' = "none"
    /\ input' = <<>>
    /\ selected' = SelectedNone
    /\ todo' = <<>>
    /\ trace' = <<>>
    /\ marks' = <<>>
    /\ outcomes' = <<>>

program == <<wrkdir, dirstack, stack_size, file_sorting, group_dirs, opts, files,
             pc, last, ret>>

NextCopy ==
    \/ (\E inp \in Inputs : action_local_copy(inp)) /\ UNCHANGED <<program, history, console>>
    \/ (\E inp \in Inputs : action_remote_copy(inp)) /\ UNCHANGED <<program, history, console>>
    \/ copy_entry /\ UNCHANGED <<program, history, console>>
    \/ reload_dir /\ UNCHANGED <<program, history, console>>
    \/ copy_return /\ UNCHANGED <<program, history, console>>

SpecCopy == Init /\ [][NextCopy]_vars

-----------------------------------------------------------------------------
(* String forms of FileSorting and GroupDirs                               *)

MaxUpper == 1        \* most letters written in upper case in a received name

Ok(x) == [ok |-> TRUE, val |-> x]
Err(e) == [ok |-> FALSE, err |-> e]

\* "by_creation_time", "by_mtime", "by_name", "by_size", "first", "last"
By_creation_time == <<98, 121, 95, 99, 114, 101, 97, 116, 105, 111, 110, 95, 116, 105, 109, 101>>
By_mtime == <<98, 121, 95, 109, 116, 105, 109, 101>>
By_name == <<98, 121, 95, 110, 97, 109, 101>>
By_size == <<98, 121, 95, 115, 105, 122, 101>>
Str_first == <<102, 105, 114, 115, 116>>
Str_last == <<108, 97, 115, 116>>

\* str::to_ascii_lowercase: A..Z are mapped to a..z, every other character,
\* non-ASCII letters included, is kept
to_ascii_lowercase(s) ==
    [i \in 1..Len(s) |-> IF s[i] >= 65 /\ s[i] <= 90 THEN s[i] + 32 ELSE s[i]]

\* impl ToString for FileSorting
FileSorting_to_string(v) ==
    CASE v = "CreationTime" -> By_creation_time
      [] v = "ModifyTime" -> By_mtime
      [] v = "Name" -> By_name
      [] v = "Size" -> By_size

\* from_str, had it matched on s.as_str() without lowering it
FileSorting_from_str_exact(s) ==
    CASE s = By_creation_time -> Ok("CreationTime")
      [] s = By_mtime -> Ok("ModifyTime")
      [] s = By_name -> Ok("Name")
      [] s = By_size -> Ok("Size")
      [] OTHER -> Err(Unit)

\* impl FromStr for FileSorting
FileSorting_from_str(s) ==
    LET lower == to_ascii_lowercase(s)
    IN  CASE lower = By_creation_time -> Ok("CreationTime")
          [] lower = By_mtime -> Ok("ModifyTime")
          [] lower = By_name -> Ok("Name")
          [] lower = By_size -> Ok("Size")
          [] OTHER -> Err(Unit)

\* impl ToString for GroupDirs
GroupDirs_to_string(v) ==
    CASE v = "First" -> Str_first
      [] v = "Last" -> Str_last

\* impl FromStr for GroupDirs
GroupDirs_from_str(s) ==
    LET lower == to_ascii_lowercase(s)
    IN  CASE lower = Str_first -> Ok("First")
          [] lower = Str_last -> Ok("Last")
          [] OTHER -> Err(Unit)

\* s with the letters at the given positions in upper case
Uppercased(s, at) ==
    [i \in 1..Len(s) |-> IF i \in at /\ s[i] >= 97 /\ s[i] <= 122 THEN s[i] - 32 ELSE s[i]]

\* the six names, entirely in upper case and with up to MaxUpper letters in
\* upper case
Spellings ==
    LET names == {By_creation_time, By_mtime, By_name, By_size, Str_first, Str_last}
    IN  UNION {{Uppercased(n, 1..Len(n))}
               \cup {Uppercased(n, at) : at \in {a \in SUBSET (1..Len(n)) :
                                                     Cardinality(a) <= MaxUpper}}
               : n \in names}

\* strings that are no name: "omar", the empty string, and spellings cut
\* short, lengthened by a space, or with a non-ASCII letter (long s, U+017F)
\* in place of their first s
Misspellings ==
    {<<111, 109, 97, 114>>, <<>>}
    \cup {SubSeq(n, 1, Len(n) - 1) : n \in Spellings}
    \cup {n \o <<32>> : n \in Spellings}
    \cup {[i \in 1..Len(n) |-> IF n[i] \in {83, 115}
                                   /\ \A j \in 1..(i - 1) : n[j] \notin {83, 115}
                                THEN 383 ELSE n[i]] : n \in {m \in Spellings :
                                                   \E i \in 1..Len(m) : m[i] \in {83, 115}}}

Strings == Spellings \cup Misspellings

\* a string is received, from a configuration file or from the user
receive(s) ==
    /\ text' = s
    /\ last' = [op |-> "receive"]
    /\ ret' = Unit

\* v.to_string()
to_string_call(type, v) ==
    /\ text' = IF type = "FileSorting" THEN FileSorting_to_string(v)
               ELSE GroupDirs_to_string(v)
    /\ last' = [op |-> "to_string", type |-> type, arg |-> v]
    /\ ret' = Unit

\* FileSorting::from_str(text) / GroupDirs::from_str(text); `written` is the
\* to_string call that wrote the text, if one did
from_str_call(type) ==
    /\ ret' = IF type = "FileSorting" THEN FileSorting_from_str(text)
              ELSE GroupDirs_from_str(text)
    /\ last' = [op |-> "from_str", type |-> type,
                written |-> IF last.op = "to_string" THEN Some(last)
                            ELSE IF last.op = "from_str" THEN last.written
                            ELSE None]
    /\ text' = text

\* a string has been received
InitParse == \E s \in Strings :
    /\ text = s
    /\ wrkdir = "/" /\ dirstack = <<>> /\ stack_size = MaxStackSize
    /\ file_sorting = "Name" /\ group_dirs = None /\ opts = 0 /\ files = <<>>
    /\ pc = "idle" /\ last = [op |-> "receive"] /\ ret = Unit
    /\ pushrun = <<>> /\ poprun = <<>> /\ given = <<>>
    /\ side = "none" /\ input = <<>> /\ selected = [variant |-> "None"]
    /\ todo = <<>> /\ cpc = "idle" /\ trace = <<>> /\ marks = <<>> /\ outcomes = <<>>
    /\ tty = <<>>

NextParse ==
    \/ (\E s \in Strings : receive(s))
          /\ UNCHANGED <<explorer, pc, history, activity, tty>>
    \/ (\E v \in FileSorting : to_string_call("FileSorting", v))
          /\ UNCHANGED <<explorer, pc, history, activity, tty>>
    \/ (\E v \in GroupDirs : to_string_call("GroupDirs", v))
          /\ UNCHANGED <<explorer, pc, history, activity, tty>>
    \/ from_str_call("FileSorting") /\ UNCHANGED <<explorer, pc, history, activity, tty>>
    \/ from_str_call("GroupDirs") /\ UNCHANGED <<explorer, pc, history, activity, tty>>

SpecParse == InitParse /\ [][NextParse]_vars

-----------------------------------------------------------------------------
(* utils::tty::read_secret_from_tty (src/src/utils/tty.rs)                  *)

\* "Password: ", shortened, and the empty prompt
Prompts == {<<80, 58, 32>>, <<>>}

\* what is typed at the prompt: nothing, or a password
Passwords == {<<>>, <<112>>, <<112, 119>>}

\* what rpassword::prompt_password answers
PromptAnswers == {Ok(p) : p \in Passwords} \cup {Err(k) : k \in {"UnexpectedEof", "Other"}}

TerminalCalls == {"disable_raw_mode", "leave_alternate_screen",
                  "enter_alternate_screen", "enable_raw_mode"}

\* whether each TerminalBridge call answers Ok; the answer is discarded
TerminalAnswers == [TerminalCalls -> BOOLEAN]

terminal(call, term) == [call |-> call, ok |-> term[call]]

\* read_secret_from_tty, had the prompt's error been propagated with `?`
read_secret_from_tty_early_return(prompt, term, answer) ==
    IF answer.ok
    THEN [calls |-> <<terminal("disable_raw_mode", term),
                      terminal("leave_alternate_screen", term),
                      [call |-> "prompt_password", prompt |-> prompt],
                      terminal("enter_alternate_screen", term),
                      terminal("enable_raw_mode", term)>>,
          result |-> IF Len(answer.val) = 0 THEN Ok(None) ELSE Ok(Some(answer.val))]
    ELSE [calls |-> <<terminal("disable_raw_mode", term),
                      terminal("leave_alternate_screen", term),
                      [call |-> "prompt_password", prompt |-> prompt]>>,
          result |-> Err(answer.err)]

\* read_secret_from_tty: the calls it makes and the value it returns
read_secret_from_tty(prompt, term, answer) ==
    [calls |-> <<terminal("disable_raw_mode", term),
                 terminal("leave_alternate_screen", term),
                 [call |-> "prompt_password", prompt |-> prompt],
                 terminal("enter_alternate_screen", term),
                 terminal("enable_raw_mode", term)>>,
     result |-> IF answer.ok
                THEN IF Len(answer.val) = 0 THEN Ok(None) ELSE Ok(Some(answer.val))
                ELSE Err(answer.err)]

read_secret_call(prompt, term, answer) ==
    /\ tty' = read_secret_from_tty(prompt, term, answer).calls
    /\ ret' = read_secret_from_tty(prompt, term, answer).result
    /\ last' = [op |-> "read_secret_from_tty", prompt |-> prompt, answer |-> answer]

NextTty ==
    \E prompt \in Prompts, term \in TerminalAnswers, answer \in PromptAnswers :
        /\ read_secret_call(prompt, term, answer)
        /\ UNCHANGED <<explorer, pc, history, activity, text>>

SpecTty == Init /\ [][NextTty]_vars

-----------------------------------------------------------------------------
(* Orders the claims speak of, written from their wording *)

Min(a, b) == IF a <= b THEN a ELSE b

LastN(q, n) == SubSeq(q, Len(q) - n + 1, Len(q))

\* a may stand before b under the criterion
KeyOrdered(sorting, a, b) ==
    CASE sorting = "Name" -> ~StrLess(to_lowercase(b.name), to_lowercase(a.name))
      [] sorting = "ModifyTime" -> a.mtime >= b.mtime
      [] sorting = "CreationTime" -> a.ctime >= b.ctime
      [] sorting = "Size" -> a.size >= b.size

\* a may stand before b under the group policy
GroupOrdered(group, a, b) ==
    IF group = None THEN TRUE
    ELSE IF group.val = "First" THEN ~(is_file(a) /\ is_dir(b))
    ELSE ~(is_dir(a) /\ is_file(b))

Ordered(f, sorting, group) ==
    \A i, j \in 1..Len(f) :
        i < j => /\ GroupOrdered(group, f[i], f[j])
                 /\ (group = None \/ f[i].kind = f[j].kind) => KeyOrdered(sorting, f[i], f[j])

-----------------------------------------------------------------------------
\* C1: in every reachable state the backing list `files` is ordered by the
\* current file_sorting criterion and, when group_dirs is Some, by the current
\* group policy (directories and files each in criterion order).
C1_FilesOrdered == Ordered(files, file_sorting, group_dirs)

C1_Witness ==
    /\ last.op = "del_entry"
    /\ Len(files) = 2
    /\ file_sorting = "Size"
    /\ group_dirs = Some("Last")
    /\ is_file(files[1]) /\ is_dir(files[2])
    /\ files[1].size < files[2].size

-----------------------------------------------------------------------------
\* C2: the number of paths in dirstack never exceeds stack_size; pushd evicts
\* only from the front and only while the stack is full, and appends the new
\* path at the back once there is room.
C2_Step ==
    /\ (pc = "pushd" /\ pc' = "pushd" /\ dirstack' # dirstack)
            => /\ Len(dirstack) = stack_size
               /\ dirstack' = Tail(dirstack)
    /\ (pc = "pushd" /\ pc' = "idle")
            => /\ Len(dirstack) < stack_size
               /\ dirstack' = dirstack \o <<last.arg>>

-----------------------------------------------------------------------------
\* C3: popd removes and returns the back of the stack, or returns None and
\* leaves the stack unchanged when it is empty; after a run of N pushes the
\* stack ends with the last min(N, capacity) pushed paths (and holds exactly
\* those when N >= capacity), and the popd calls that follow return them in
\* reverse push order, then None once capacity-many were popped.
C3_PopdStep ==
    last'.op = "popd" =>
        IF dirstack = <<>>
        THEN ret' = None /\ dirstack' = dirstack
        ELSE /\ ret' = Some(dirstack[Len(dirstack)])
             /\ dirstack' = SubSeq(dirstack, 1, Len(dirstack) - 1)

C3_Run ==
    pc = "idle" =>
        LET n == Len(pushrun)
            k == Len(poprun)
            m == Min(n, stack_size)
        IN  /\ (k = 0 /\ n > 0) => /\ Len(dirstack) >= m
                                   /\ LastN(dirstack, m) = LastN(pushrun, m)
            /\ (k = 0 /\ n >= stack_size) => Len(dirstack) = stack_size
            /\ \A i \in 1..k : i <= m => poprun[i] = Some(pushrun[n - i + 1])
            /\ n >= stack_size => \A i \in 1..k : i > m => poprun[i] = None

C3_Popd == [](C3_Run) /\ [][C3_PopdStep]_vars

C3_Witness ==
    /\ last.op = "popd"
    /\ stack_size = 2
    /\ Len(pushrun) = 3
    /\ Cardinality(Range(pushrun)) = 3
    /\ poprun = <<Some(pushrun[3]), Some(pushrun[2]), None>>
    /\ dirstack = <<>>

-----------------------------------------------------------------------------
\* C4: del_entry(idx) with idx >= len(files) leaves files unchanged; with
\* idx < len(files) it removes exactly the element at position idx, the count
\* drops by one and every other entry keeps its relative order.  No other
\* field of the explorer changes.
C4_Step ==
    last'.op = "del_entry" =>
        LET idx == last'.arg
        IN  /\ idx >= Len(files) => files' = files
            /\ idx < Len(files) =>
                  /\ Len(files') = Len(files) - 1
                  /\ \A i \in 1..idx : files'[i] = files[i]
                  /\ \A i \in (idx + 1)..Len(files') : files'[i] = files[i + 1]
            /\ UNCHANGED <<wrkdir, dirstack, stack_size, file_sorting, group_dirs, opts>>

C4_DelEntry == [][C4_Step]_vars

C4_Witness ==
    /\ last.op = "del_entry"
    /\ last.arg > Len(files)
    /\ Len(files) >= 1

-----------------------------------------------------------------------------
\* C5: toggle_hidden_files changes only the SHOW_HIDDEN_FILES bit of opts and
\* nothing else of the explorer; a toggle_hidden_files call that directly
\* follows another one restores hidden_files_visible() and the sequence of
\* iter_files() to what the first call found.
C5_Step ==
    last'.op = "toggle_hidden_files" =>
        /\ UNCHANGED <<wrkdir, dirstack, stack_size, file_sorting, group_dirs, files>>
        /\ opts' # opts
        /\ opts' \div 2 = opts \div 2
        /\ last.op = "toggle_hidden_files" =>
              /\ hidden_files_visible' = last.visible
              /\ iter_files' = last.listing

C5_Toggle == [][C5_Step]_vars

C5_Witness ==
    /\ last.op = "toggle_hidden_files"
    /\ last.visible
    /\ Len(last.listing) = 3
    /\ Len(iter_files) = 2
    /\ dirstack # <<>>
    /\ group_dirs # None

-----------------------------------------------------------------------------
\* C6: with SHOW_HIDDEN_FILES clear iter_files() yields exactly the entries of
\* files whose name does not start with '.', in backing-list order; with it
\* set it yields what iter_files_all() yields, the whole of files.  Neither
\* iterator changes the explorer.
NotDotted == {i \in 1..Len(files) : files[i].name = <<>> \/ files[i].name[1] # 46}

NthNotDotted(k) == CHOOSE i \in NotDotted : Cardinality({j \in NotDotted : j < i}) = k - 1

C6_Yield ==
    /\ last.op = "iter_files" =>
          IF opts % 2 = 0
          THEN ret.items = [k \in 1..Cardinality(NotDotted) |-> files[NthNotDotted(k)]]
          ELSE ret.items = iter_files_all /\ ret.items = files
    /\ last.op = "iter_files_all" => ret.items = files

C6_ReadOnly == last'.op \in {"iter_files", "iter_files_all"} => explorer' = explorer

C6_IterFiles == [](C6_Yield) /\ [][C6_ReadOnly]_vars

C6_Witness ==
    /\ last.op = "iter_files"
    /\ opts = 0
    /\ Len(files) = 3
    /\ is_hidden(files[1])
    /\ ret.items = <<files[2], files[3]>>

-----------------------------------------------------------------------------
\* C7: get(i) returns the i-th element of the sequence iter_files() produces
\* under the same options, and None exactly when i is at least the number of
\* visible entries.
C7_Get ==
    last.op = "get" =>
        /\ (ret = None) <=> (last.arg >= Len(iter_files))
        /\ last.arg < Len(iter_files) => ret = Some(iter_files[last.arg + 1])

C7_Witness ==
    /\ last.op = "get"
    /\ last.arg = 1
    /\ opts = 0
    /\ Len(files) = 3
    /\ is_hidden(files[1])
    /\ ret = Some(files[3])

-----------------------------------------------------------------------------
\* C8: sort_by(c) with c the current file_sorting, and group_dirs_by(g) with g
\* the current group_dirs, leave the whole explorer unchanged; otherwise the
\* criterion (resp. policy) becomes the argument, files is a rearrangement of
\* itself ordered for the new policy, and nothing else changes.
SameEntries(f, g) == Len(f) = Len(g) /\ \A e \in Entries :
    Cardinality({i \in 1..Len(f) : f[i] = e}) = Cardinality({i \in 1..Len(g) : g[i] = e})

C8_Step ==
    /\ (last'.op = "sort_by" /\ last'.same) => explorer' = explorer
    /\ (last'.op = "sort_by" /\ ~last'.same) =>
          /\ file_sorting' # file_sorting
          /\ SameEntries(files', files)
          /\ Ordered(files', file_sorting', group_dirs')
          /\ UNCHANGED <<wrkdir, dirstack, stack_size, group_dirs, opts>>
    /\ (last'.op = "group_dirs_by" /\ last'.same) => explorer' = explorer
    /\ (last'.op = "group_dirs_by" /\ ~last'.same) =>
          /\ group_dirs' # group_dirs
          /\ SameEntries(files', files)
          /\ Ordered(files', file_sorting', group_dirs')
          /\ UNCHANGED <<wrkdir, dirstack, stack_size, file_sorting, opts>>

C8_NoOp == [][C8_Step]_vars

C8_Witness ==
    /\ last.op = "sort_by"
    /\ last.same
    /\ file_sorting = "ModifyTime"
    /\ group_dirs = Some("First")
    /\ Len(files) = 3

-----------------------------------------------------------------------------
\* C9: sorting is idempotent for every criterion and group policy: sorting the
\* listing again under the current policy leaves files exactly as it is, and
\* sorting it under any policy and then once more under the same policy gives
\* the same order, entries with equal keys included.
C9_Idempotent ==
    /\ sort(files, file_sorting, group_dirs) = files
    /\ \A s \in FileSorting, g \in GroupOptions :
          LET once == sort(files, s, g) IN sort(once, s, g) = once

C9_Witness ==
    /\ last.op = "set_files"
    /\ file_sorting = "CreationTime"
    /\ group_dirs = Some("First")
    /\ Len(files) = 3
    /\ is_dir(files[1])
    /\ files[2].name = Name_dot_a /\ files[3].name = Name_b
    /\ files[2].ctime = files[3].ctime

-----------------------------------------------------------------------------
\* C10: grouping is a stable partition applied after the primary sort: under
\* GroupDirs::First every Directory precedes every File, under GroupDirs::Last
\* every File precedes every Directory, and a re-sort leaves the directories
\* and the files each in the order the primary sort gives them.
Partition(f, group) ==
    IF group = None THEN f
    ELSE IF group.val = "First"
         THEN SelectSeq(f, LAMBDA x : x.kind = "Directory") \o SelectSeq(f, LAMBDA x : x.kind = "File")
         ELSE SelectSeq(f, LAMBDA x : x.kind = "File") \o SelectSeq(f, LAMBDA x : x.kind = "Directory")

C10_Grouped ==
    \A i, j \in 1..Len(files) : i < j => GroupOrdered(group_dirs, files[i], files[j])

C10_Step ==
    /\ (last'.op \in {"sort_by", "group_dirs_by"} /\ ~last'.same) =>
          files' = Partition(sort(files, file_sorting', None), group_dirs')
    /\ (last'.op = "group_dirs_by" /\ group_dirs = None) =>
          files' = Partition(files, group_dirs')

C10_StablePartition == [](C10_Grouped) /\ [][C10_Step]_vars

C10_Witness ==
    /\ last.op = "group_dirs_by"
    /\ ~last.same
    /\ file_sorting = "Name"
    /\ group_dirs = Some("First")
    /\ Len(files) = 3
    /\ is_dir(files[1]) /\ is_dir(files[2]) /\ is_file(files[3])
    /\ files[1].name = Name_ab /\ files[2].name = Name_B /\ files[3].name = Name_dot_a

-----------------------------------------------------------------------------
\* Lower-casing and the lexicographic order, as C11 words them
Lower(s) == [i \in 1..Len(s) |-> IF s[i] \in 65..90 THEN s[i] + 32 ELSE s[i]]

LexLeq(a, b) ==
    LET differ == {i \in 1..Min(Len(a), Len(b)) : a[i] # b[i]}
    IN  IF differ = {} THEN Len(a) <= Len(b)
        ELSE LET k == CHOOSE i \in differ : \A j \in differ : i <= j
             IN  a[k] < b[k]

\* the entries of f whose lower-cased name is k, in the order f has them
NameClass(f, k) == SelectSeq(f, LAMBDA x : Lower(x.name) = k)

\* C11: with file_sorting = Name and no group policy the entries stand in
\* non-decreasing lexicographic order of their lower-cased names; set_files
\* and sort_by leave the entries whose names differ only in case in the
\* order they had (in the vector given, resp. in the listing before).
C11_NameOrder ==
    (file_sorting = "Name" /\ group_dirs = None) =>
        \A i \in 1..(Len(files) - 1) :
            LexLeq(Lower(files[i].name), Lower(files[i + 1].name))

C11_StableStep ==
    (last'.op \in {"set_files", "sort_by"} /\ file_sorting' = "Name" /\ group_dirs' = None) =>
        LET prior == IF last'.op = "set_files" THEN given' ELSE files
        IN  \A e \in Entries :
                NameClass(files', Lower(e.name)) = NameClass(prior, Lower(e.name))

C11_ByName == [](C11_NameOrder) /\ [][C11_StableStep]_vars

C11_Witness ==
    /\ last.op = "set_files"
    /\ file_sorting = "Name" /\ group_dirs = None
    /\ Len(given) = 3
    /\ given[1].name = Name_B /\ given[2].name = Name_b /\ given[3].name = Name_ab
    /\ files = <<given[3], given[1], given[2]>>

-----------------------------------------------------------------------------
\* C12: with file_sorting = Size, ModifyTime or CreationTime and no group
\* policy the entries stand in non-increasing order of size, mtime or ctime
\* respectively, directories by their own key like any file: sizes 1024, 4096
\* (a directory) and 256 are listed as 4096, 1024, 256.
SizeExample ==
    << [name |-> Name_b,  path |-> "/b",  kind |-> "File",      size |-> 1024, mtime |-> 1, ctime |-> 1],
       [name |-> Name_ab, path |-> "/ab", kind |-> "Directory", size |-> 4096, mtime |-> 1, ctime |-> 1],
       [name |-> Name_B,  path |-> "/B",  kind |-> "File",      size |-> 256,  mtime |-> 1, ctime |-> 1] >>

C12_Descending ==
    /\ group_dirs = None =>
          \A i \in 1..(Len(files) - 1) :
              /\ file_sorting = "Size" => files[i].size >= files[i + 1].size
              /\ file_sorting = "ModifyTime" => files[i].mtime >= files[i + 1].mtime
              /\ file_sorting = "CreationTime" => files[i].ctime >= files[i + 1].ctime
    /\ LET sorted == sort(SizeExample, "Size", None)
       IN  [i \in 1..3 |-> sorted[i].size] = <<4096, 1024, 256>>

C12_Witness ==
    /\ last.op = "sort_by"
    /\ file_sorting = "Size" /\ group_dirs = None
    /\ Len(files) = 3
    /\ is_dir(files[1]) /\ is_file(files[2]) /\ is_dir(files[3])
    /\ files[1].size > files[3].size

-----------------------------------------------------------------------------
\* how many entries of f have path p
PathCount(f, p) == Cardinality({i \in 1..Len(f) : f[i].path = p})

\* f is a rearrangement of g: every entry occurs in both equally often
Permutation(f, g) ==
    /\ Len(f) = Len(g)
    /\ \A e \in Range(f) \cup Range(g) :
          Cardinality({i \in 1..Len(f) : f[i] = e}) = Cardinality({i \in 1..Len(g) : g[i] = e})

\* C13: set_files(new) succeeds for any vector, the empty one included:
\* afterwards files is a permutation of exactly the entries of new, and
\* file_sorting, group_dirs, opts, wrkdir and dirstack are unchanged.
C13_Step ==
    last'.op = "set_files" =>
        /\ ret' = Unit
        /\ Permutation(files', given')
        /\ UNCHANGED <<file_sorting, group_dirs, opts, wrkdir, dirstack>>

C13_SetFiles == [][C13_Step]_vars

C13_Witness ==
    /\ last.op = "set_files"
    /\ given = <<>> /\ files = <<>>
    /\ file_sorting = "Size" /\ group_dirs = Some("Last")

-----------------------------------------------------------------------------
\* C14 as claimed: files never holds two entries with the same path, whatever
\* vector is passed to set_files.
C14_NoDuplicatePaths ==
    \A i, j \in 1..Len(files) : i # j => files[i].path # files[j].path

\* C14 as amended: files holds a path more than once only when the vector
\* last passed to set_files did: no path occurs in files more often than in
\* that vector.
C14_OnlyGivenDuplicates ==
    \A i \in 1..Len(files) :
        PathCount(files, files[i].path) <= PathCount(given, files[i].path)

C14_Witness ==
    /\ last.op = "set_files"
    /\ file_sorting = "Name"
    /\ Len(given) = 3
    /\ given[1] = given[3] /\ given[2].name = Name_ab
    /\ files = <<given[2], given[1], given[3]>>

-----------------------------------------------------------------------------
\* C15: none of set_files, del_entry, sort_by, group_dirs_by,
\* toggle_hidden_files, pushd, popd, get and the iterators changes wrkdir: it
\* changes only in the step in which the owner of the explorer assigns it.
C15_Step ==
    /\ last'.op \in {"set_files", "del_entry", "sort_by", "group_dirs_by",
                     "toggle_hidden_files", "pushd", "popd", "get", "iter_files",
                     "iter_files_all"} => wrkdir' = wrkdir
    /\ wrkdir' # wrkdir => last'.op = "chdir"

C15_WrkdirFrame == [][C15_Step]_vars

C15_Witness ==
    /\ last.op = "popd"
    /\ wrkdir = "/dev"
    /\ ret = Some("/tmp")
    /\ dirstack = <<"/">>
    /\ Len(files) = 1 /\ opts = 1 /\ file_sorting = "Size" /\ group_dirs # None

-----------------------------------------------------------------------------
\* C16: a default FileExplorer starts with an empty listing, an empty
\* directory stack of capacity 16, working directory "/", sort criterion
\* Name, no group policy and hidden files not shown; the stack of an explorer
\* left at its default capacity never holds more than 16 paths.
C16_Default ==
    /\ last.op = "default" =>
          /\ files = <<>> /\ iter_files_all = <<>>
          /\ dirstack = <<>>
          /\ stack_size = 16
          /\ wrkdir = "/"
          /\ file_sorting = "Name"
          /\ group_dirs = None
          /\ ~hidden_files_visible
          /\ opts % 2 = 0
    /\ Len(dirstack) <= 16

C16_Witness ==
    /\ last.op = "default"
    /\ pc = "idle"
    /\ explorer = <<"/", <<>>, 16, "Name", None, 0, <<>>>>

-----------------------------------------------------------------------------
(* What the claims about the copy actions speak of *)

\* the events of the i-th entry handled
Segment(i) == SubSeq(trace, IF i = 1 THEN 1 ELSE marks[i - 1] + 1, marks[i])

\* the entries of a multi-entry selection
Batch == IF selected.variant = "Many" THEN selected.entries ELSE <<>>

\* input / name
Dest(inp, name) ==
    IF inp[Len(inp)] = 47 THEN inp \o name ELSE inp \o <<47>> \o name

Attempts(events) == SelectSeq(events, LAMBDA e : e.ev \in {"host.copy", "client.copy"})

Reports(events, level) == SelectSeq(events, LAMBDA e : e.ev = "log" /\ e.level = level)

Staging(events) ==
    SelectSeq(events, LAMBDA e : e.ev \in {"umount_wait", "tempfile", "filetransfer_recv",
                                           "host.stat", "filetransfer_send"})

\* the entry was copied, directly or through the staged copy
Copied(ans) == ans.copy = "Ok" \/ (ans.copy = "UnsupportedFeature" /\ ans.fail = "none")

-----------------------------------------------------------------------------
\* C17: for a multi-entry selection the local and the remote copy action
\* attempt exactly one copy per selected entry, in selection order, each to
\* input / entry.name; whatever the outcome of an entry, a failed staged copy
\* included, the entries after it are attempted: none is skipped, and the
\* action ends only when every entry was attempted.
C17_EachAttempted ==
    selected.variant = "Many" =>
        LET n == Len(marks)
            attempts == Attempts(trace)
        IN  /\ Len(attempts) = n
            /\ todo = SubSeq(Batch, n + 1, Len(Batch))
            /\ \A i \in 1..n :
                  /\ Len(Attempts(Segment(i))) = 1
                  /\ attempts[i].dest = Dest(input, Batch[i].name)
                  /\ IF side = "local"
                     THEN attempts[i].ev = "host.copy" /\ attempts[i].entry = Batch[i]
                     ELSE attempts[i].ev = "client.copy" /\ attempts[i].src = Batch[i].path
            /\ cpc = "done" => n = Len(Batch)

C17_Witness ==
    /\ cpc = "done"
    /\ side = "remote"
    /\ selected.variant = "Many"
    /\ Len(Batch) = 3
    /\ input = <<47, 116>>
    /\ outcomes[1] = [copy |-> "UnsupportedFeature", fail |-> "send"]
    /\ outcomes[2].copy = "ProtocolError"
    /\ outcomes[3].copy = "Ok"
    /\ Len(Attempts(trace)) = 3

-----------------------------------------------------------------------------
\* C18 as claimed: in a batch copy every entry whose copy succeeds produces
\* exactly one Info report and every entry whose copy fails produces exactly
\* one Error report.
C18_OneReportPerEntry ==
    selected.variant = "Many" =>
        \A i \in 1..Len(marks) :
            /\ Copied(outcomes[i]) => Len(Reports(Segment(i), "Info")) = 1
            /\ ~Copied(outcomes[i]) => Len(Reports(Segment(i), "Error")) = 1

-----------------------------------------------------------------------------
\* C19: the staged copy is entered if and only if a remote direct copy fails
\* with UnsupportedFeature: any other remote error is reported as one Error
\* and nothing is staged, downloaded or uploaded, and a local copy, failed or
\* not, never stages anything.
C19_FallbackIff ==
    \A i \in 1..Len(marks) :
        LET seg == Segment(i)
            ans == outcomes[i]
        IN  /\ (Staging(seg) # <<>>) <=> (side = "remote" /\ ans.copy = "UnsupportedFeature")
            /\ (side = "remote" /\ ans.copy \notin {"Ok", "UnsupportedFeature"}) =>
                  /\ Len(seg) = 2
                  /\ seg[1].ev = "client.copy"
                  /\ seg[2].ev = "log" /\ seg[2].level = "Error"
            /\ (side = "local" /\ ans.copy # "Ok") =>
                  /\ Len(seg) = 2
                  /\ seg[1].ev = "host.copy"
                  /\ seg[2].ev = "log" /\ seg[2].level = "Error"

C19_Witness ==
    /\ cpc = "done"
    /\ side = "remote"
    /\ Len(marks) = 2
    /\ outcomes[1].copy = "ProtocolError"
    /\ outcomes[2] = [copy |-> "UnsupportedFeature", fail |-> "none"]
    /\ Staging(Segment(1)) = <<>>
    /\ Len(Staging(Segment(2))) = 5

-----------------------------------------------------------------------------
\* C20: when the remote direct copy answers UnsupportedFeature the staged copy
\* is entered exactly once for that entry, the direct copy is not tried
\* again, and the unsupported copy itself is never reported: the only Error
\* of the entry, if any, is that of the stage of the staged copy that failed.
C20_UnsupportedHidden ==
    \A i \in 1..Len(marks) :
        (side = "remote" /\ outcomes[i].copy = "UnsupportedFeature") =>
            LET seg == Segment(i)
                errors == Reports(seg, "Error")
            IN  /\ Len(SelectSeq(seg, LAMBDA e : e.ev = "umount_wait")) = 1
                /\ Len(Attempts(seg)) = 1
                /\ \A k \in 1..Len(seg) : seg[k].ev = "log" => seg[k].msg # "Could not copy"
                /\ IF outcomes[i].fail = "none" THEN errors = <<>>
                   ELSE /\ Len(errors) = 1
                        /\ errors[1].msg \in {"Copy failed: could not create temporary file",
                                              "Copy failed: could not create temporary directory",
                                              "Copy failed: could not download to temporary file",
                                              "Copy failed: failed to download file",
                                              "Copy failed: could not stat",
                                              "Copy failed: could not write file",
                                              "Copy failed: failed to send file"}

C20_Witness ==
    /\ cpc = "done"
    /\ side = "remote"
    /\ selected.variant = "One"
    /\ outcomes = <<[copy |-> "UnsupportedFeature", fail |-> "recv"]>>
    /\ Len(Reports(trace, "Error")) = 1
    /\ Reports(trace, "Error")[1].msg = "Copy failed: could not download to temporary file"

-----------------------------------------------------------------------------
(* What the claims about the staged copy speak of *)

\* the entry handled i-th and the destination it is copied to
Handled(i) == IF selected.variant = "One" THEN selected.entry ELSE selected.entries[i]

HandledDest(i) == IF selected.variant = "One" THEN input ELSE Dest(input, Handled(i).name)

\* the entry went through tricky_copy
Tricky(i) == side = "remote" /\ outcomes[i].copy = "UnsupportedFeature"

Calls(events, names) == SelectSeq(events, LAMBDA e : e.ev \in names)

EvNames(events) == [k \in 1..Len(events) |-> events[k].ev]

StageOrder == <<"tempfile", "filetransfer_recv", "host.stat", "filetransfer_send">>

\* how many of the four stages are entered when the given one fails
StagesEntered(fail) ==
    CASE fail = "tempfile" -> 1
      [] fail = "recv" -> 2
      [] fail = "stat" -> 3
      [] fail = "send" -> 4
      [] fail = "none" -> 4

\* the messages that name a stage
StageMessages(fail, entry) ==
    CASE fail = "tempfile" -> {"Copy failed: could not create temporary file",
                               "Copy failed: could not create temporary directory"}
      [] fail = "recv" -> {"Copy failed: could not download to temporary file",
                           "Copy failed: failed to download file"}
      [] fail = "stat" -> {"Copy failed: could not stat"}
      [] fail = "send" -> {"Copy failed: could not write file",
                           "Copy failed: failed to send file"}

Reloads(events) == Calls(events, {"reload_local_dir", "reload_remote_dir"})

-----------------------------------------------------------------------------
\* C21: tricky_copy, for a file and for a directory alike, runs its stages in
\* the order create-staging, download, stat of the staged path, upload, each
\* at most once, and stops at the first stage that fails: after a failed
\* creation nothing is downloaded, after a failed download nothing is stat'ed
\* or uploaded, after a failed stat nothing is uploaded.
C21_StagesInOrder ==
    \A i \in 1..Len(marks) :
        Tricky(i) =>
            LET stages == Calls(Segment(i), Range(StageOrder))
                n == StagesEntered(outcomes[i].fail)
            IN  /\ EvNames(stages) = SubSeq(StageOrder, 1, n)
                /\ stages[1].ok = (outcomes[i].fail # "tempfile")
                /\ stages[1].what = IF Handled(i).kind = "File" THEN "NamedTempFile"
                                    ELSE "TempDir"

C21_Witness ==
    /\ cpc = "done"
    /\ side = "remote"
    /\ Len(marks) = 2
    /\ Handled(1).kind = "Directory"
    /\ Handled(2).kind = "File"
    /\ outcomes[1] = [copy |-> "UnsupportedFeature", fail |-> "recv"]
    /\ outcomes[2] = [copy |-> "UnsupportedFeature", fail |-> "stat"]
    /\ Len(Calls(Segment(1), Range(StageOrder))) = 2
    /\ Len(Calls(Segment(2), Range(StageOrder))) = 3

-----------------------------------------------------------------------------
\* C22: when the remote copy of a single file answers UnsupportedFeature and
\* the download and the stat succeed, there is exactly one download, exactly
\* one stat, of the staged path, and exactly one upload, whose payload is the
\* entry stat'ed at the staged path and not the remote entry, whether the
\* upload succeeds or fails.
C22_OneOfEach ==
    (/\ cpc = "done"
     /\ selected.variant = "One"
     /\ selected.entry.kind = "File"
     /\ Tricky(1)
     /\ outcomes[1].fail \in {"send", "none"}) =>
        LET recvs == Calls(trace, {"filetransfer_recv"})
            stats == Calls(trace, {"host.stat"})
            sends == Calls(trace, {"filetransfer_send"})
        IN  /\ Len(recvs) = 1
            /\ Len(stats) = 1
            /\ Len(sends) = 1
            /\ recvs[1].entry = selected.entry
            /\ recvs[1].to = stats[1].path
            /\ sends[1].payload = "File"
            /\ sends[1].entry.path = stats[1].path
            /\ sends[1].entry # selected.entry
            /\ sends[1].dst_name = Some(input)

C22_Witness ==
    /\ cpc = "done"
    /\ selected.variant = "One"
    /\ selected.entry.kind = "File"
    /\ side = "remote"
    /\ outcomes = <<[copy |-> "UnsupportedFeature", fail |-> "send"]>>
    /\ Len(Calls(trace, {"filetransfer_send"})) = 1

-----------------------------------------------------------------------------
\* C23: every temporary file or directory tricky_copy created is removed when
\* tricky_copy returns, on success and after a failed download, stat or
\* upload alike: the removal is the last thing the invocation does, and
\* nothing is removed when nothing was created.
C23_StagingReleased ==
    \A i \in 1..Len(marks) :
        Tricky(i) =>
            LET seg == Segment(i)
                created == SelectSeq(seg, LAMBDA e : e.ev = "tempfile" /\ e.ok)
                dropped == Calls(seg, {"drop"})
            IN  /\ Len(dropped) = Len(created)
                /\ created # <<>> =>
                      /\ seg[Len(seg)].ev = "drop"
                      /\ seg[Len(seg)].what = created[1].what

C23_Witness ==
    /\ cpc = "done"
    /\ side = "remote"
    /\ Len(marks) = 3
    /\ outcomes[1] = [copy |-> "UnsupportedFeature", fail |-> "recv"]
    /\ outcomes[2] = [copy |-> "UnsupportedFeature", fail |-> "stat"]
    /\ outcomes[3] = [copy |-> "UnsupportedFeature", fail |-> "send"]
    /\ \A i \in 1..3 : Len(Calls(Segment(i), {"drop"})) = 1

-----------------------------------------------------------------------------
\* C24: in every execution of tricky_copy the wait indicator is withdrawn
\* (umount_wait) before the temporary file or directory is created and before
\* any download, stat or upload.
C24_UmountFirst ==
    \A i \in 1..Len(marks) :
        Tricky(i) =>
            LET seg == Segment(i)
            IN  \A k \in 1..Len(seg) :
                    seg[k].ev \in Range(StageOrder) =>
                        \E j \in 1..(k - 1) : seg[j].ev = "umount_wait"

C24_Witness ==
    /\ cpc = "done"
    /\ side = "remote"
    /\ selected.variant = "One"
    /\ outcomes = <<[copy |-> "UnsupportedFeature", fail |-> "tempfile"]>>
    /\ trace[2].ev = "umount_wait"
    /\ trace[3].ev = "tempfile"

-----------------------------------------------------------------------------
\* C25 (as claimed): the remote listing is reloaded after a tricky copy that
\* succeeded and is not reloaded after a tricky copy that failed at any stage.
C25_ReloadOnlyOnSuccess ==
    (cpc = "done" /\ selected.variant = "One" /\ Tricky(1)) =>
        IF outcomes[1].fail = "none"
        THEN trace[Len(trace)].ev = "reload_remote_dir"
        ELSE Reloads(trace) = <<>>

\* C25 (amended): the remote listing is reloaded once after the entry, or the
\* batch, that went through tricky_copy, whether the tricky copy succeeded or
\* failed at any stage; tricky_copy itself reloads nothing.
C25_ReloadWhateverOutcome ==
    \A i \in 1..Len(marks) :
        Tricky(i) =>
            /\ Reloads(Segment(i)) = <<>>
            /\ cpc = "done" =>
                  /\ trace[Len(trace)].ev = "reload_remote_dir"
                  /\ Len(Reloads(trace)) = 1

C25_Witness ==
    /\ cpc = "done"
    /\ side = "remote"
    /\ selected.variant = "One"
    /\ outcomes = <<[copy |-> "UnsupportedFeature", fail |-> "stat"]>>
    /\ trace[Len(trace)].ev = "reload_remote_dir"

-----------------------------------------------------------------------------
\* C26: a copy action with a non-empty selection reloads the listing of its
\* own side exactly once, after the copy of every selected entry was
\* attempted and never between two entries; a copy action with no selection
\* copies nothing, reloads nothing and reports nothing.
C26_ReloadOnce ==
    /\ cpc = "copy" => Reloads(trace) = <<>>
    /\ (cpc = "done" /\ selected.variant # "None") =>
          /\ Len(marks) = (IF selected.variant = "One" THEN 1 ELSE Len(selected.entries))
          /\ Len(trace) = marks[Len(marks)] + 1
          /\ Len(Reloads(trace)) = 1
          /\ trace[Len(trace)].ev = (IF side = "local" THEN "reload_local_dir"
                                     ELSE "reload_remote_dir")
    /\ (cpc = "done" /\ selected.variant = "None") => (trace = <<>> /\ marks = <<>>)

C26_Witness ==
    /\ cpc = "done"
    /\ side = "local"
    /\ selected.variant = "Many"
    /\ Len(marks) = 3
    /\ Len(Reloads(trace)) = 1

-----------------------------------------------------------------------------
\* C27: tricky_copy returns Err if and only if one of its stages failed, and
\* before every such return exactly one Error is logged and alerted, right
\* after the failed call and naming its stage; a successful tricky_copy logs
\* no Error; and a failed direct copy, local or remote, that is not
\* UnsupportedFeature is logged and alerted as exactly one Error.
C27_NoSilentFailure ==
    \A i \in 1..Len(marks) :
        LET seg == Segment(i)
            errors == Reports(seg, "Error")
            fail == outcomes[i].fail
        IN  IF Tricky(i)
            THEN LET r == tricky_copy(Handled(i), HandledDest(i), outcomes[i])
                     stages == Calls(seg, Range(StageOrder))
                 IN  /\ Tail(seg) = r.events
                     /\ (r.result = "Err") <=> (fail # "none")
                     /\ fail = "none" => errors = <<>>
                     /\ fail # "none" =>
                           /\ Len(errors) = 1
                           /\ errors[1].alert
                           /\ errors[1].msg \in StageMessages(fail, Handled(i))
                           /\ \E k \in 2..Len(seg) :
                                 /\ seg[k] = errors[1]
                                 /\ seg[k - 1] = stages[Len(stages)]
            ELSE outcomes[i].copy # "Ok" =>
                    /\ Len(errors) = 1
                    /\ errors[1].alert
                    /\ errors[1].msg = "Could not copy"

C27_Witness ==
    /\ cpc = "done"
    /\ side = "remote"
    /\ Len(marks) = 3
    /\ outcomes[1] = [copy |-> "UnsupportedFeature", fail |-> "stat"]
    /\ outcomes[2] = [copy |-> "ProtocolError", fail |-> "none"]
    /\ outcomes[3] = [copy |-> "UnsupportedFeature", fail |-> "none"]
    /\ Len(Reports(trace, "Error")) = 2

-----------------------------------------------------------------------------
\* the string form the documentation and the tests give for each variant
FormOf(v) ==
    CASE v = "CreationTime" -> <<98, 121, 95, 99, 114, 101, 97, 116, 105, 111, 110, 95, 116, 105, 109, 101>>
      [] v = "ModifyTime" -> <<98, 121, 95, 109, 116, 105, 109, 101>>
      [] v = "Name" -> <<98, 121, 95, 110, 97, 109, 101>>
      [] v = "Size" -> <<98, 121, 95, 115, 105, 122, 101>>
      [] v = "First" -> <<102, 105, 114, 115, 116>>
      [] v = "Last" -> <<108, 97, 115, 116>>

\* C28: FileSorting and GroupDirs round-trip through their string forms:
\* from_str of what v.to_string() wrote is Ok(v), for every variant v; from_str
\* answers Ok(v) for the name of v in any mix of upper and lower case, and Err
\* for every other string.
C28_RoundTrip ==
    /\ last.op = "to_string" => text = FormOf(last.arg)
    /\ last.op = "from_str" =>
          LET variants == IF last.type = "FileSorting" THEN FileSorting ELSE GroupDirs
              named == {v \in variants : Lower(text) = FormOf(v)}
          IN  /\ (last.written.some /\ last.written.val.type = last.type) =>
                    ret = Ok(last.written.val.arg)
              /\ \A v \in named : ret = Ok(v)
              /\ named = {} => ~ret.ok

C28_Witness ==
    /\ last.op = "from_str"
    /\ last.type = "FileSorting"
    /\ last.written = Some([op |-> "to_string", type |-> "FileSorting", arg |-> "CreationTime"])
    /\ ret = Ok("CreationTime")

-----------------------------------------------------------------------------
\* C29: read_secret_from_tty always restores the terminal: whatever the
\* prompt answers (a password, nothing, an I/O error) and whatever the
\* terminal calls answer, it calls disable-raw-mode, leave-alternate-screen,
\* the prompt, enter-alternate-screen, enable-raw-mode, in that order, and
\* then returns Ok(None) for an empty input, Ok(Some(input)) for a non-empty
\* one and Err for an error of the prompt.
C29_TerminalRestored ==
    last.op = "read_secret_from_tty" =>
        /\ [k \in 1..Len(tty) |-> tty[k].call] =
              <<"disable_raw_mode", "leave_alternate_screen", "prompt_password",
                "enter_alternate_screen", "enable_raw_mode">>
        /\ tty[3].prompt = last.prompt
        /\ IF ~last.answer.ok THEN ret = Err(last.answer.err)
           ELSE IF last.answer.val = <<>> THEN ret = Ok(None)
           ELSE ret = Ok(Some(last.answer.val))

C29_Witness ==
    /\ last.op = "read_secret_from_tty"
    /\ ~last.answer.ok
    /\ ~ret.ok
    /\ Len(tty) = 5
    /\ ~tty[1].ok
    /\ tty[5].call = "enable_raw_mode"

-----------------------------------------------------------------------------
\* C30: pushd terminates for every configured stack_size, 0 included: each
\* iteration its loop has to make removes a record from the stack, so the
\* loop is left after at most as many iterations as the stack has records;
\* and when pushd has returned the path pushed is the back of the stack.
C30_PushdTerminates ==
    /\ (pc = "pushd" /\ Len(dirstack) >= stack_size) => Len(dirstack) > 0
    /\ (pc = "idle" /\ last.op = "pushd") =>
          (dirstack # <<>> /\ dirstack[Len(dirstack)] = last.arg)

====
